---- MODULE Spec2Model ----
(***************************************************************************)
(* The MASSVIS data layers of imp_layers_massvis.py:                       *)
(* MassvisTrainDataLayerBubble and MassvisDataLayerBubble.  One instance   *)
(* of each class lives in one Python process; the module-level generator   *)
(* of `random` is the one piece of state the instances share.              *)
(*                                                                         *)
(* Python values are written as follows.  None is the number -1 (seeds are *)
(* naturals).  A string that the code searches ('train' in split) is a     *)
(* sequence of one-character strings.  An array is a record                *)
(* [dtype, shape, at] whose `at` maps every index tuple (1-based) to the   *)
(* entry there.  A float64 entry of a label is an exact fraction           *)
(* <<numerator, denominator>>; a float32 entry of an image is an integer   *)
(* (pixels and means are integers here, so the subtraction is exact).      *)
(* idx is 0-based as in the code; indices[idx] is indices[idx + 1] here.   *)
(***************************************************************************)
EXTENDS Integers, Sequences, FiniteSets, TLC

\* ------------------------------------------------------------------ bounds
MaxN == 2          \* longest file listing
MaxForwards == 3   \* forward calls per layer
MaxDim == 2        \* largest image height and width
MaxPattern == 2    \* pixel patterns per image shape (0..MaxPattern)
RngMod == 4        \* number of states of the generator
MaxSeed == 0       \* explicit seeds are 0..MaxSeed
MaxSharedForwards == 2   \* forward calls per layer when two layers share a process

None == -1

Layers == {"MassvisTrainDataLayerBubble", "MassvisDataLayerBubble"}

Ids == {"a", "b"}

\* ---------------------------------------------------------------- strings
train == <<"t", "r", "a", "i", "n">>
valid == <<"v", "a", "l", "i", "d">>
trainval == <<"t", "r", "a", "i", "n", "v", "a", "l">>

\* needle in hay (Python's substring test)
Contains(hay, needle) ==
    \E i \in 0..(Len(hay) - Len(needle)) :
        SubSeq(hay, i + 1, i + Len(needle)) = needle

\* ----------------------------------------------------------------- arrays
MaxOf(shape) == IF shape = <<>> THEN 0
                ELSE CHOOSE m \in {shape[k] : k \in DOMAIN shape} :
                         \A k \in DOMAIN shape : shape[k] <= m

Indices(shape) ==
    {i \in [1..Len(shape) -> 1..MaxOf(shape)] :
        \A k \in 1..Len(shape) : i[k] <= shape[k]}

Array(dtype, shape, f(_)) ==
    [dtype |-> dtype, shape |-> shape, at |-> [i \in Indices(shape) |-> f(i)]]

NoArray == [dtype |-> "none", shape |-> <<>>, at |-> <<>>]

\* params.get(key, default)
Get(p, key, default) == IF key \in DOMAIN p THEN p[key] ELSE default

\* ------------------------------------------------- the `random` module
RngStates == 0..(RngMod - 1)

\* random.seed(a): a deterministic state for a number, any state for None
\* (None seeds from the operating system's entropy or the time).
SeedStates(a) == IF a = None THEN RngStates ELSE {a % RngMod}

\* one draw advances the generator deterministically
RngStep(s) == (s + 1) % RngMod

\* random.randint(a, b) drawn in generator state s (after the step): a value
\* of a..b, both ends included
randintOffByOne(s, a, b) == a + (s % (b - a + 2))
randint(s, a, b) == a + (s % (b - a + 1))

\* ------------------------------------------------------------ load_image
\* np.array(im, dtype=np.float32)
AsFloat32(raw) == [raw EXCEPT !.dtype = "float32"]

\* the black and white case: ret[:, :, :] = in_[:, :, np.newaxis]
Replicate(in_) ==
    Array("float32", <<in_.shape[1], in_.shape[2], 3>>,
          LAMBDA i : in_.at[<<i[1], i[2]>>])

\* in_[:, :, ::-1]
ReverseChannels(in_) ==
    Array(in_.dtype, in_.shape,
          LAMBDA i : in_.at[<<i[1], i[2], in_.shape[3] + 1 - i[3]>>])

\* in_ -= mean is defined when mean broadcasts along the last axis
Broadcasts(shape, mean) == Len(mean) = shape[Len(shape)] \/ Len(mean) = 1

SubtractMean(in_, mean) ==
    Array(in_.dtype, in_.shape,
          LAMBDA i : in_.at[i] - (IF Len(mean) = 1 THEN mean[1] ELSE mean[i[3]]))

\* in_.transpose((2, 0, 1))
Transpose201(in_) ==
    Array(in_.dtype, <<in_.shape[3], in_.shape[1], in_.shape[2]>>,
          LAMBDA i : in_.at[<<i[2], i[3], i[1]>>])

Expanded(raw) == IF Len(raw.shape) < 3 THEN Replicate(AsFloat32(raw))
                 ELSE AsFloat32(raw)

\* load_image raises (ValueError: operands could not be broadcast together)
load_image_raises(raw, mean) == ~Broadcasts(Expanded(raw).shape, mean)

load_image_noflip(raw, mean) ==
    Transpose201(SubtractMean(Expanded(raw), mean))
load_image(raw, mean) ==
    Transpose201(SubtractMean(ReverseChannels(Expanded(raw)), mean))

\* ------------------------------------------------------------ load_label
\* label > 255.0*2/3 (a bool array), or label / 255.0 (a float64 array whose
\* entry for pixel p is the fraction p/255); then label[np.newaxis, ...]
load_label(raw, binarize) ==
    IF binarize
    THEN Array("bool", <<1>> \o raw.shape,
               LAMBDA i : 3 * raw.at[[k \in 1..Len(raw.shape) |-> i[k + 1]]] > 255 * 2)
    ELSE Array("float64", <<1>> \o raw.shape,
               LAMBDA i : <<raw.at[[k \in 1..Len(raw.shape) |-> i[k + 1]]], 255>>)

\* ------------------------------------------------------------ the files
\* A PNG file is <<h, w, c, k>>: height, width, bands (0 for a single-band
\* image, which decodes to a two-dimensional array) and a pixel pattern k.
\* Decoding it (np.array(Image.open(path))) gives the array of its bytes.
ImagePixel(k, i) ==
    (85 * k + 37 * i[1] + 11 * i[2] + (IF Len(i) > 2 THEN 101 * i[3] ELSE 0)) % 256

LabelLevels == <<0, 128, 170, 171, 255>>

LabelPixel(k, i) ==
    LabelLevels[((k + i[1] + 2 * i[2] + (IF Len(i) > 2 THEN i[3] ELSE 0)) % 5) + 1]

BandShape(h, w, c) == IF c = 0 THEN <<h, w>> ELSE <<h, w, c>>

DecodedImage(png) ==
    Array("uint8", BandShape(png[1], png[2], png[3]), LAMBDA i : ImagePixel(png[4], i))

DecodedLabel(png) ==
    Array("uint8", BandShape(png[1], png[2], png[3]), LAMBDA i : LabelPixel(png[4], i))

ImageDir(L) == IF L = "MassvisTrainDataLayerBubble" THEN "train" ELSE "valid"
LabelDir(L) == IF L = "MassvisTrainDataLayerBubble" THEN "train_imp" ELSE "valid_imp"

Dirs == {"train", "train_imp", "valid", "valid_imp"}

FileSystem(imgs, lbls) ==
    [d \in Dirs |-> IF d \in {"train", "valid"} THEN imgs ELSE lbls]

\* data directories with RGB and single-band images and single-band labels
PlainFiles ==
    FileSystem(("a" :> <<1, 2, 3, 0>>) @@ ("b" :> <<2, 1, 0, 1>>),
               ("a" :> <<1, 2, 0, 0>>) @@ ("b" :> <<2, 1, 0, 1>>))

\* data directories with an RGBA image and an RGB label image
MixedFiles ==
    FileSystem(("a" :> <<1, 1, 4, 1>>) @@ ("b" :> <<2, 2, 3, 2>>),
               ("a" :> <<1, 1, 0, 2>>) @@ ("b" :> <<1, 1, 3, 0>>))

FileSystems == {PlainFiles, MixedFiles}

\* the data directories the preprocessing is checked on: every identifier
\* names the same image and the same label, drawn from all small ones
Dims == 1..MaxDim
Patterns == 0..MaxPattern
Bands == {0, 2, 3, 4}

WideFileSystems ==
    { FileSystem([id \in Ids |-> <<h, w, c, k>>], [id \in Ids |-> <<lh, lw, 0, lk>>]) :
        h \in Dims, w \in Dims, c \in Bands, k \in Patterns,
        lh \in Dims, lw \in Dims, lk \in Patterns }

\* ------------------------------------------------------------- the state
VARIABLES
    rng,         \* state of the module-level generator of `random`
    files,       \* the data directories: files[dir][id] is a decoded PNG
    pc,          \* per layer: "new", "ready" (setup returned) or "raised"
    err,         \* per layer: the exception a call ended in, or "none"
    params,      \* per layer: eval(self.param_str)
    split, mean, random, seed, binarize,   \* per layer: self.<name>
    indices,     \* per layer: self.indices, the lines of the listing
    idx,         \* per layer: self.idx (0-based)
    data, label, \* per layer: self.data, self.label
    top,         \* per layer: the shapes of top[0] and top[1]
    sample,      \* per layer: the idx whose pair self.data/self.label hold
    fresh,       \* per layer: a reshape ran since the last forward
    disciplined, \* per layer: every forward so far followed a reshape of its own
    picks,       \* per layer: the values idx was set to, in order
    served       \* per layer: the idx of the pair each forward handed off

vars == <<rng, files, pc, err, params, split, mean, random, seed, binarize,
          indices, idx, data, label, top, sample, fresh, disciplined, picks,
          served>>

config == <<params, split, mean, random, seed, binarize>>
history == <<sample, fresh, disciplined, picks, served>>

Loaded(L) == data[L].dtype # "none"

InitWith(fs) ==
    /\ rng = 0   \* the import-time state; every draw follows a random.seed call
    /\ files \in fs
    /\ pc = [L \in Layers |-> "new"]
    /\ err = [L \in Layers |-> "none"]
    /\ params = [L \in Layers |-> <<>>]
    /\ split = [L \in Layers |-> <<>>]
    /\ mean = [L \in Layers |-> <<>>]
    /\ random = [L \in Layers |-> FALSE]
    /\ seed = [L \in Layers |-> None]
    /\ binarize = [L \in Layers |-> FALSE]
    /\ indices = [L \in Layers |-> <<>>]
    /\ idx = [L \in Layers |-> 0]
    /\ data = [L \in Layers |-> NoArray]
    /\ label = [L \in Layers |-> NoArray]
    /\ top = [L \in Layers |-> << <<>>, <<>> >>]
    /\ sample = [L \in Layers |-> 0]
    /\ fresh = [L \in Layers |-> FALSE]
    /\ disciplined = [L \in Layers |-> TRUE]
    /\ picks = [L \in Layers |-> <<>>]
    /\ served = [L \in Layers |-> <<>>]

\* ------------------------------------------------------------------ setup
\* self.random once setup is through: params.get('randomize', True), made
\* False when 'train' is not in the split name
SetupRandomIgnoringSplit(p) == Get(p, "randomize", TRUE)
SetupRandom(p) ==
    IF ~Contains(p["split"], train) THEN FALSE ELSE Get(p, "randomize", TRUE)

Raise(L, e) == /\ pc' = [pc EXCEPT ![L] = "raised"]
               /\ err' = [err EXCEPT ![L] = e]

Setup(L, p, ntop, nbottom, lines) ==
    /\ pc[L] = "new"
    /\ params' = [params EXCEPT ![L] = p]
    /\ split' = [split EXCEPT ![L] = p["split"]]
    /\ mean' = [mean EXCEPT ![L] = p["mean"]]
    /\ seed' = [seed EXCEPT ![L] = Get(p, "seed", None)]
    /\ binarize' = [binarize EXCEPT ![L] = p["binarize"]]
    /\ UNCHANGED <<files, data, label, top, sample, fresh, disciplined, served>>
    /\ IF ntop # 2
       THEN /\ Raise(L, "Exception: Need to define two tops: data and label.")
            /\ random' = [random EXCEPT ![L] = Get(p, "randomize", TRUE)]
            /\ UNCHANGED <<rng, indices, idx, picks>>
       ELSE IF nbottom # 0
       THEN /\ Raise(L, "Exception: Do not define a bottom.")
            /\ random' = [random EXCEPT ![L] = Get(p, "randomize", TRUE)]
            /\ UNCHANGED <<rng, indices, idx, picks>>
       ELSE /\ indices' = [indices EXCEPT ![L] = lines]
            /\ random' = [random EXCEPT ![L] = SetupRandom(p)]
            /\ IF ~SetupRandom(p)
               THEN /\ idx' = [idx EXCEPT ![L] = 0]
                    /\ picks' = [picks EXCEPT ![L] = <<0>>]
                    /\ pc' = [pc EXCEPT ![L] = "ready"]
                    /\ UNCHANGED <<rng, err>>
               ELSE \E s0 \in SeedStates(Get(p, "seed", None)) :
                       IF Len(lines) = 0
                       THEN \* random.randint(0, -1)
                            /\ rng' = s0
                            /\ idx' = [idx EXCEPT ![L] = 0]
                            /\ Raise(L, "ValueError: empty range for randrange()")
                            /\ UNCHANGED picks
                       ELSE /\ rng' = RngStep(s0)
                            /\ idx' = [idx EXCEPT ![L] =
                                          randint(RngStep(s0), 0, Len(lines) - 1)]
                            /\ picks' = [picks EXCEPT ![L] =
                                          <<randint(RngStep(s0), 0, Len(lines) - 1)>>]
                            /\ pc' = [pc EXCEPT ![L] = "ready"]
                            /\ UNCHANGED err

\* ---------------------------------------------------------------- reshape
\* top[0].reshape(1, *self.data.shape); top[1].reshape(1, *self.label.shape)
TopShapesFromData(d, l) == << <<1>> \o d.shape, <<1>> \o d.shape >>
TopShapes(d, l) == << <<1>> \o d.shape, <<1>> \o l.shape >>

Reshape(L) ==
    /\ pc[L] = "ready"
    /\ UNCHANGED <<rng, files, config, indices, idx, disciplined, picks, served>>
    /\ IF idx[L] >= Len(indices[L])
       THEN /\ Raise(L, "IndexError: list index out of range")
            /\ UNCHANGED <<data, label, top, sample, fresh>>
       ELSE LET id == indices[L][idx[L] + 1]
                im == DecodedImage(files[ImageDir(L)][id])
                lb == DecodedLabel(files[LabelDir(L)][id])
            IN  IF load_image_raises(im, mean[L])
                THEN /\ Raise(L, "ValueError: operands could not be broadcast together")
                     /\ UNCHANGED <<data, label, top, sample, fresh>>
                ELSE /\ data' = [data EXCEPT ![L] = load_image(im, mean[L])]
                     /\ label' = [label EXCEPT ![L] = load_label(lb, binarize[L])]
                     /\ top' = [top EXCEPT ![L] = TopShapes(data'[L], label'[L])]
                     /\ sample' = [sample EXCEPT ![L] = idx[L]]
                     /\ fresh' = [fresh EXCEPT ![L] = TRUE]
                     /\ UNCHANGED <<pc, err>>

\* ---------------------------------------------------------------- forward
\* top[i].data[...] = value is defined when value's shape broadcasts to the
\* blob's: aligned at the last axis, each axis equal or 1
Assignable(dst, src) ==
    /\ Len(src) <= Len(dst)
    /\ \A k \in 1..Len(src) :
          LET d == dst[Len(dst) - Len(src) + k]
          IN  src[k] = d \/ src[k] = 1

\* the sequential pick: self.idx += 1, back to 0 at the end of the listing
NextSequentialSkipping(i, n) == IF i + 2 >= n THEN 0 ELSE i + 2
NextSequential(i, n) == IF i + 1 = n THEN 0 ELSE i + 1

Forward(L) ==
    /\ pc[L] = "ready"
    /\ Loaded(L)
    /\ Len(served[L]) < MaxForwards
    /\ UNCHANGED <<files, config, indices, data, label, top, sample>>
    /\ IF ~(Assignable(top[L][1], data[L].shape) /\ Assignable(top[L][2], label[L].shape))
       THEN /\ Raise(L, "ValueError: could not broadcast input array")
            /\ UNCHANGED <<rng, idx, fresh, disciplined, picks, served>>
       ELSE /\ served' = [served EXCEPT ![L] = Append(@, sample[L])]
            /\ disciplined' = [disciplined EXCEPT ![L] = @ /\ fresh[L]]
            /\ fresh' = [fresh EXCEPT ![L] = FALSE]
            /\ UNCHANGED <<pc, err>>
            /\ IF random[L]
               THEN /\ rng' = RngStep(rng)
                    /\ idx' = [idx EXCEPT ![L] =
                                  randint(RngStep(rng), 0, Len(indices[L]) - 1)]
                    /\ picks' = [picks EXCEPT ![L] =
                                  Append(@, randint(RngStep(rng), 0, Len(indices[L]) - 1))]
               ELSE /\ idx' = [idx EXCEPT ![L] = NextSequential(idx[L], Len(indices[L]))]
                    /\ picks' = [picks EXCEPT ![L] =
                                  Append(@, NextSequential(idx[L], Len(indices[L])))]
                    /\ UNCHANGED rng

\* --------------------------------------------------------------- backward
BackwardAdvancing(L) ==
    /\ pc[L] = "ready"
    /\ idx' = [idx EXCEPT ![L] = NextSequential(idx[L], Len(indices[L]))]
    /\ UNCHANGED <<rng, files, pc, err, config, indices, data, label, top, history>>
Backward(L) ==
    /\ pc[L] = "ready"
    /\ UNCHANGED vars

\* ----------------------------------------------------- inputs of the calls
\* param_str dictionaries: 'randomize' and 'seed' are optional keys
Optional(key, values) == {<<>>} \cup {key :> v : v \in values}

ParamDicts(splits, means, binarizes, randomizes, seeds) ==
    { ("split" :> s) @@ ("mean" :> m) @@ ("binarize" :> b) @@ r @@ sd :
        s \in splits, m \in means, b \in binarizes, r \in randomizes, sd \in seeds }

Seeds == {None} \cup 0..MaxSeed

\* listings: every sequence of at most MaxN identifiers (empty, repeated
\* lines and all)
Listings == UNION {[1..n -> Ids] : n \in 0..MaxN}

\* listings a, ab, aba, ... of 1..MaxN lines
AlternatingListings ==
    {[k \in 1..n |-> IF k % 2 = 1 THEN "a" ELSE "b"] : n \in 1..MaxN}

CaffeMean == <<104, 117, 123>>

\* one lifecycle call of layer L with any wiring, parameters and listing
SetupAny(L) ==
    /\ pc[L] = "new"
    /\ \E p \in ParamDicts({train, valid, trainval}, {CaffeMean}, BOOLEAN,
                        Optional("randomize", BOOLEAN), Optional("seed", Seeds)),
       ntop \in 1..3, nbottom \in 0..1, lines \in Listings :
        Setup(L, p, ntop, nbottom, lines)

\* a correctly wired training-split layer in random order
SetupRandomOrder(L) ==
    /\ pc[L] = "new"
    /\ \E p \in ParamDicts({train}, {CaffeMean}, {FALSE},
                        {<<>>}, {"seed" :> sd : sd \in Seeds}),
       lines \in AlternatingListings :
        Setup(L, p, 2, 0, lines)

\* a correctly wired layer with any mean of three channels
SetupPreprocessing(L) ==
    /\ pc[L] = "new"
    /\ \E p \in ParamDicts({valid}, {CaffeMean, <<0, 0, 0>>, <<1, 2, 3>>}, BOOLEAN,
                        {<<>>}, {<<>>}),
       lines \in [1..1 -> Ids] :
        Setup(L, p, 2, 0, lines)

\* No other layer of the process has been set up: a net with one data layer.
Alone(L) == \A M \in Layers \ {L} : pc[M] = "new"

\* ------------------------------------------------------- specifications
\* the lifecycle of one data layer, of either class, driven by the host
Init == InitWith(FileSystems)

Next ==
    \E L \in Layers :
        \/ Alone(L) /\ SetupAny(L)
        \/ Alone(L) /\ Reshape(L)
        \/ Alone(L) /\ Forward(L)
        \/ Alone(L) /\ Backward(L)

Spec == Init /\ [][Next]_vars

\* two random-order layers in one process, their calls interleaved
InitShared == InitWith({PlainFiles})

NextShared ==
    \E L \in Layers :
        \/ SetupRandomOrder(L)
        \/ Reshape(L)
        \/ Len(served[L]) < MaxSharedForwards /\ Forward(L)

SpecShared == InitShared /\ [][NextShared]_vars

\* the preprocessing of one layer over all small images and labels
InitPure == InitWith(WideFileSystems)

NextPure ==
    \E L \in Layers :
        \/ Alone(L) /\ SetupPreprocessing(L)
        \/ Alone(L) /\ Reshape(L)

SpecPure == InitPure /\ [][NextPure]_vars

\* ================================================================ claims
WiringErrors == {"Exception: Need to define two tops: data and label.",
                 "Exception: Do not define a bottom."}

\* C1 (as claimed): the only exceptions a lifecycle call ends in are the two
\* that setup raises for a wrong number of tops or bottoms; no call of a
\* correctly wired layer ends in an error.
C1_OnlyWiringErrors ==
    \A L \in Layers : err[L] # "none" => err[L] \in WiringErrors

\* C2: after a successful setup the layer is in random mode exactly when
\* randomize is true or omitted and the split name contains 'train'; a split
\* without 'train' gives sequential mode starting at idx = 0.
C2_RandomMode ==
    \A L \in Layers :
        pc[L] = "ready" =>
            /\ random[L] <=> (Get(params[L], "randomize", TRUE)
                              /\ Contains(params[L]["split"], train))
            /\ ~Contains(params[L]["split"], train) =>
                  /\ ~random[L]
                  /\ picks[L][1] = 0
                  /\ served[L] = <<>> => idx[L] = 0

\* a validation split set up with randomize=True and a seed
C2_Witness ==
    \E L \in Layers :
        /\ pc[L] = "ready"
        /\ params[L]["split"] = valid
        /\ Get(params[L], "randomize", FALSE)
        /\ Get(params[L], "seed", None) # None
        /\ ~random[L] /\ idx[L] = 0 /\ Len(indices[L]) > 1

\* the generator state j draws after random.seed(a), a a number
RECURSIVE RngAfter(_, _)
RngAfter(s, j) == IF j = 0 THEN s ELSE RngStep(RngAfter(s, j - 1))

\* the picks of a layer that runs alone: a function of its seed and listing
SoloPicks(a, n, k) ==
    [j \in 1..k |-> randint(RngAfter(CHOOSE s \in SeedStates(a) : TRUE, j), 0, n - 1)]

\* C3 (as claimed): the indices a random-mode layer with a seed serves are a
\* function of its seed and its listing alone, whatever another layer of the
\* process does in between.
C3_SeedFixesSequence ==
    \A L \in Layers :
        (pc[L] = "ready" /\ random[L] /\ seed[L] # None) =>
            picks[L] = SoloPicks(seed[L], Len(indices[L]), Len(picks[L]))

\* the decoded image the loaded pair of L was made from
RawImage(L) == DecodedImage(files[ImageDir(L)][indices[L][sample[L] + 1]])
RawLabel(L) == DecodedLabel(files[LabelDir(L)][indices[L][sample[L] + 1]])

\* C4: load_image gives a 3 x H x W array with
\* out[c][y][x] = in[y][x][2-c] - mean[c] (channels counted from 0), a
\* two-dimensional image counting as three equal channels.
C4_LoadImage ==
    \A L \in Layers :
        Loaded(L) =>
            LET raw == RawImage(L)
                h == raw.shape[1]
                w == raw.shape[2]
            IN  /\ data[L].shape = <<3, h, w>>
                /\ \A c \in 1..3, y \in 1..h, x \in 1..w :
                      data[L].at[<<c, y, x>>] =
                          (IF Len(raw.shape) = 3 THEN raw.at[<<y, x, 4 - c>>]
                           ELSE raw.at[<<y, x>>]) - mean[L][c]

\* an RGB image of more than one pixel loaded with a non-zero mean, its
\* first and last channel differing
C4_Witness ==
    \E L \in Layers :
        /\ Loaded(L)
        /\ RawImage(L).shape = <<MaxDim, MaxDim, 3>>
        /\ RawImage(L).at[<<1, 1, 1>>] # RawImage(L).at[<<1, 1, 3>>]
        /\ mean[L] = <<1, 2, 3>>

\* C5 (as claimed): load_label gives a 1 x H x W array whose entries are all
\* integers, for binarize true and false.
C5_IntegerLabels ==
    \A L \in Layers :
        Loaded(L) =>
            /\ label[L].shape = <<1>> \o RawLabel(L).shape
            /\ Len(label[L].shape) = 3
            /\ label[L].dtype = "float64" =>
                  \A i \in DOMAIN label[L].at :
                      label[L].at[i][1] % label[L].at[i][2] = 0

\* C6: after every reshape top[0] has shape (1,) + data.shape and top[1] has
\* shape (1,) + label.shape, and no forward finds a top that its data or
\* label does not fit.
C6_TopShapes ==
    \A L \in Layers :
        /\ Loaded(L) =>
              /\ top[L][1] = <<1>> \o data[L].shape
              /\ top[L][2] = <<1>> \o label[L].shape
              /\ top[L][1][1] = 1 /\ top[L][2][1] = 1
        /\ err[L] # "ValueError: could not broadcast input array"

\* a second sample of another shape reshaped after a forward
C6_Witness ==
    \E L \in Layers :
        /\ Loaded(L) /\ fresh[L]
        /\ Len(served[L]) >= 1
        /\ sample[L] # served[L][1]
        /\ data[L].shape = <<3, 2, 1>>
        /\ label[L].shape = <<1, 2, 1>>

\* C7: reshape and backward leave the listing and idx unchanged, a repeated
\* reshape loads the same pair, backward changes nothing, only forward changes
\* idx after setup, and nothing changes the listing after setup.
C7_Frame ==
    [][\A L \in Layers :
          /\ Reshape(L) => UNCHANGED <<indices, idx>>
          /\ (Reshape(L) /\ fresh[L]) => UNCHANGED <<data, label, top>>
          /\ Backward(L) => UNCHANGED vars
          /\ (pc[L] # "new" /\ idx'[L] # idx[L]) => Forward(L)
          /\ pc[L] # "new" => indices'[L] = indices[L]]_vars

\* a layer that has been reshaped again after forwards moved idx
C7_Witness ==
    \E L \in Layers :
        /\ pc[L] = "ready" /\ Loaded(L) /\ fresh[L]
        /\ Len(served[L]) >= 2
        /\ sample[L] = idx[L] /\ idx[L] # picks[L][1]

Sequential(L) == pc[L] = "ready" /\ ~random[L] /\ disciplined[L]

\* the forwards start..start+n-1 of L
Window(L, start) == start..(start + Len(indices[L]) - 1)

\* C8 (as claimed): in sequential mode, with a reshape before each forward,
\* the k-th forward serves indices[k mod n] and every n consecutive forwards
\* serve each listed identifier exactly once.
C8_EachIdentifierOnce ==
    \A L \in Layers :
        Sequential(L) =>
            /\ \A k \in 1..Len(served[L]) : served[L][k] = (k - 1) % Len(indices[L])
            /\ \A start \in 1..(Len(served[L]) - Len(indices[L]) + 1) :
                  \A id \in {indices[L][k] : k \in 1..Len(indices[L])} :
                      Cardinality({k \in Window(L, start) :
                                      indices[L][served[L][k] + 1] = id}) = 1

\* C8 (amended): ... and every n consecutive forwards serve each line of the
\* listing exactly once, so each identifier as often as the listing names it;
\* each forward sets idx to (idx + 1) mod n.
C8_EachLineOnce ==
    \A L \in Layers :
        Sequential(L) =>
            /\ \A k \in 1..Len(served[L]) : served[L][k] = (k - 1) % Len(indices[L])
            /\ \A k \in 2..Len(picks[L]) : picks[L][k] = (picks[L][k - 1] + 1) % Len(indices[L])
            /\ \A start \in 1..(Len(served[L]) - Len(indices[L]) + 1) :
                  /\ \A pos \in 0..(Len(indices[L]) - 1) :
                        Cardinality({k \in Window(L, start) : served[L][k] = pos}) = 1
                  /\ \A id \in Ids :
                        Cardinality({k \in Window(L, start) :
                                        indices[L][served[L][k] + 1] = id})
                            = Cardinality({j \in 1..Len(indices[L]) : indices[L][j] = id})

\* a sequential layer that has gone round a listing of several lines
C8_Witness ==
    \E L \in Layers :
        /\ Sequential(L)
        /\ Len(indices[L]) >= 2
        /\ Len(served[L]) > Len(indices[L])
        /\ served[L][Len(served[L])] = 0

\* C9: after a successful setup on a non-empty listing 0 <= idx < len(indices)
\* always, so reshape never indexes out of range.
C9_IdxInRange ==
    \A L \in Layers :
        Len(indices[L]) > 0 =>
            /\ pc[L] = "ready" => (0 <= idx[L] /\ idx[L] < Len(indices[L]))
            /\ err[L] # "IndexError: list index out of range"

\* a random-mode layer at the last line of its listing after two forwards
C9_Witness ==
    \E L \in Layers :
        /\ pc[L] = "ready" /\ random[L]
        /\ Len(served[L]) >= 2
        /\ Len(indices[L]) >= 2
        /\ idx[L] = Len(indices[L]) - 1

====
